---- MODULE Spec2Model ----
(***************************************************************************)
(* Model of the decide endpoint of the Decision Engine                      *)
(* (src/app/api/decide/route.ts): configuration check, input sanitization,  *)
(* embedding, similarity search with the strictness gate, prompt assembly,  *)
(* generation, and the parse / repair of the Generator's text.              *)
(*                                                                          *)
(* Text is a sequence of symbols.  A symbol is one character, written as a  *)
(* one-character string, except that a run of characters which no          *)
(* operation of the code ever splits (a word, a fixed message) is written   *)
(* as one symbol.  Control characters are "\n", "\r", "\t", "\f" and the    *)
(* symbols "NUL" (0x00) and "DEL" (0x7F); "BACKTICK" is the grave accent    *)
(* and "BS" the backspace.  The escape \uXXXX is not in the alphabet of the *)
(* Generator texts.                                                         *)
(*                                                                          *)
(* Spec is one page and the requests it submits one after the other;        *)
(* LiveSpec adds the fairness of the page's own steps; ConcSpec runs        *)
(* several invocations of POST concurrently; FnSpec applies single          *)
(* functions (match_documents, the brace extraction of the earlier route,   *)
(* the result adapter, an ingestion run) to inputs drawn at the start.      *)
(***************************************************************************)
EXTENDS Integers, Sequences, FiniteSets, TLC

(***************************************************************************)
(* Bounds                                                                   *)
(***************************************************************************)
\* how many requests the endpoint serves in one behaviour
MaxRequests == 2

\* how many requests run concurrently
MaxConcurrent == 2

\* the largest match_count a search on its own is given
MaxMatchCount == 6

\* the longest text brace extraction on its own is given
MaxTextLen == 4

(***************************************************************************)
(* Characters                                                               *)
(***************************************************************************)
\* the character class [\x00-\x1F\x7F] of sanitizeInput and cleanJsonOutput
ControlChars == {"\n", "\r", "\t", "\f", "NUL", "DEL"}

\* the characters JSON.parse rejects unescaped inside a string: U+0000-U+001F
JsonStringForbidden == {"\n", "\r", "\t", "\f", "NUL"}

\* JSON whitespace
JsonWs == {" ", "\n", "\r", "\t"}

Digits == {"0", "1", "2", "3", "4", "5", "6", "7", "8", "9"}

Literals == {"null", "true", "false"}

\* the replacement with the class [\x00-\x1F] alone
sanitizeInputBelow32(text) ==
  SelectSeq(text, LAMBDA c : c \notin JsonStringForbidden)

\* text.replace(/[\x00-\x1F\x7F]/g, '')
sanitizeInput(text) == SelectSeq(text, LAMBDA c : c \notin ControlChars)

(***************************************************************************)
(* JSON values.  Every value is a record [t, v, m]: t the type, v the text  *)
(* of a string or number, m the members of an object or array, each member  *)
(* a record [k, val] (k is <<>> for an array item).                         *)
(***************************************************************************)
JString(s) == [t |-> "string", v |-> s, m |-> <<>>]
JNumber(d) == [t |-> "number", v |-> d, m |-> <<>>]
JLiteral(name) == [t |-> name, v |-> <<>>, m |-> <<>>]
JObject(members) == [t |-> "object", v |-> <<>>, m |-> members]
JArray(items) == [t |-> "array", v |-> <<>>, m |-> items]
JNull == JLiteral("null")

Member(key, value) == [k |-> key, val |-> value]

\* obj[key] = value on an object under construction: a repeated key keeps
\* its first position and takes the last value
PutMember(members, key, value) ==
  IF \E i \in 1..Len(members) : members[i].k = key
  THEN [i \in 1..Len(members) |->
          IF members[i].k = key THEN Member(key, value) ELSE members[i]]
  ELSE Append(members, Member(key, value))

HasField(val, key) ==
  /\ val.t = "object"
  /\ \E i \in 1..Len(val.m) : val.m[i].k = key

\* val[key] of an object that has the field
Field(val, key) ==
  val.m[CHOOSE i \in 1..Len(val.m) : val.m[i].k = key].val

IsStringField(val, key) ==
  /\ HasField(val, key)
  /\ Field(val, key).t = "string"

(***************************************************************************)
(* JSON.parse, by recursive descent.  A parse step returns                  *)
(* [ok, val, pos]: pos is the index after the value.                        *)
(***************************************************************************)
ParseFail == [ok |-> FALSE, val |-> JNull, pos |-> 0]
ParseOk(value, next) == [ok |-> TRUE, val |-> value, pos |-> next]

RECURSIVE SkipWs(_, _)
SkipWs(s, i) ==
  IF i <= Len(s) /\ s[i] \in JsonWs THEN SkipWs(s, i + 1) ELSE i

\* the character an escape sequence \c denotes
Unescape(c) ==
  CASE c = "n" -> "\n"
    [] c = "r" -> "\r"
    [] c = "t" -> "\t"
    [] c = "f" -> "\f"
    [] c = "b" -> "BS"
    [] OTHER -> c

EscapeLetters == {"n", "r", "t", "f", "b", "\"", "\\", "/"}

\* the rest of a string literal, i the index after the opening quote
RECURSIVE ParseStringBody(_, _, _)
ParseStringBody(s, i, acc) ==
  IF i > Len(s) THEN ParseFail
  ELSE IF s[i] = "\"" THEN ParseOk(acc, i + 1)
  ELSE IF s[i] = "\\" THEN
    IF i + 1 <= Len(s) /\ s[i + 1] \in EscapeLetters
    THEN ParseStringBody(s, i + 2, Append(acc, Unescape(s[i + 1])))
    ELSE ParseFail
  ELSE IF s[i] \in JsonStringForbidden THEN ParseFail
  ELSE ParseStringBody(s, i + 1, Append(acc, s[i]))

RECURSIVE DigitsEnd(_, _)
DigitsEnd(s, i) ==
  IF i <= Len(s) /\ s[i] \in Digits THEN DigitsEnd(s, i + 1) ELSE i

RECURSIVE ParseValue(_, _), ParseMembers(_, _, _), ParseItems(_, _, _)

\* a value starting at or after index i
ParseValue(s, i) ==
  LET j == SkipWs(s, i) IN
  IF j > Len(s) THEN ParseFail
  ELSE IF s[j] = "{" THEN
    LET k == SkipWs(s, j + 1) IN
    IF k <= Len(s) /\ s[k] = "}" THEN ParseOk(JObject(<<>>), k + 1)
    ELSE ParseMembers(s, k, <<>>)
  ELSE IF s[j] = "[" THEN
    LET k == SkipWs(s, j + 1) IN
    IF k <= Len(s) /\ s[k] = "]" THEN ParseOk(JArray(<<>>), k + 1)
    ELSE ParseItems(s, k, <<>>)
  ELSE IF s[j] = "\"" THEN
    LET r == ParseStringBody(s, j + 1, <<>>) IN
    IF r.ok THEN ParseOk(JString(r.val), r.pos) ELSE ParseFail
  ELSE IF s[j] \in Literals THEN ParseOk(JLiteral(s[j]), j + 1)
  ELSE IF s[j] = "0" THEN ParseOk(JNumber(<<"0">>), j + 1)
  ELSE IF s[j] \in Digits THEN
    LET e == DigitsEnd(s, j) IN ParseOk(JNumber(SubSeq(s, j, e - 1)), e)
  ELSE ParseFail

\* the members of an object from index i (after "{" or ","), up to "}"
ParseMembers(s, i, acc) ==
  LET j == SkipWs(s, i) IN
  IF j > Len(s) \/ s[j] # "\"" THEN ParseFail
  ELSE
    LET key == ParseStringBody(s, j + 1, <<>>) IN
    IF ~key.ok THEN ParseFail
    ELSE
      LET c == SkipWs(s, key.pos) IN
      IF c > Len(s) \/ s[c] # ":" THEN ParseFail
      ELSE
        LET item == ParseValue(s, c + 1) IN
        IF ~item.ok THEN ParseFail
        ELSE
          LET e == SkipWs(s, item.pos)
              next == PutMember(acc, key.val, item.val) IN
          IF e > Len(s) THEN ParseFail
          ELSE IF s[e] = "}" THEN ParseOk(JObject(next), e + 1)
          ELSE IF s[e] = "," THEN ParseMembers(s, e + 1, next)
          ELSE ParseFail

\* the items of an array from index i (after "[" or ","), up to "]"
ParseItems(s, i, acc) ==
  LET item == ParseValue(s, i) IN
  IF ~item.ok THEN ParseFail
  ELSE
    LET e == SkipWs(s, item.pos)
        next == Append(acc, Member(<<>>, item.val)) IN
    IF e > Len(s) THEN ParseFail
    ELSE IF s[e] = "]" THEN ParseOk(JArray(next), e + 1)
    ELSE IF s[e] = "," THEN ParseItems(s, e + 1, next)
    ELSE ParseFail

\* JSON.parse(text): [ok |-> FALSE] stands for the SyntaxError it throws
JSONparse(text) ==
  LET r == ParseValue(text, 1) IN
  IF r.ok /\ SkipWs(text, r.pos) = Len(text) + 1
  THEN ParseOk(r.val, r.pos)
  ELSE ParseFail

(***************************************************************************)
(* cleanJsonOutput                                                          *)
(***************************************************************************)
HasAt(text, pat, i) ==
  /\ i >= 1
  /\ i + Len(pat) - 1 <= Len(text)
  /\ SubSeq(text, i, i + Len(pat) - 1) = pat

Min(S) == CHOOSE x \in S : \A y \in S : x <= y

FenceOpen == <<"BACKTICK", "BACKTICK", "BACKTICK", "json", "\n">>
FenceClose == <<"\n", "BACKTICK", "BACKTICK", "BACKTICK">>

\* the indices where /```json\n([\s\S]*?)\n```/ can start a match
FenceStarts(text) ==
  {i \in 1..Len(text) :
     /\ HasAt(text, FenceOpen, i)
     /\ \E j \in (i + Len(FenceOpen))..Len(text) : HasAt(text, FenceClose, j)}

\* cleaned.match(/```json\n([\s\S]*?)\n```/): [found, group], group is the
\* lazily matched jsonMatch[1] of the leftmost match
jsonMatch(text) ==
  IF FenceStarts(text) = {} THEN [found |-> FALSE, group |-> <<>>]
  ELSE
    LET i == Min(FenceStarts(text))
        b == i + Len(FenceOpen)
        j == Min({x \in b..Len(text) : HasAt(text, FenceClose, x)})
    IN [found |-> TRUE, group |-> SubSeq(text, b, j - 1)]

\* cleaned.replace(/[\x00-\x1F\x7F]/g, '')
removeControl(text) == SelectSeq(text, LAMBDA c : c \notin ControlChars)

\* the indices >= from where /(".*?[^\\])C(.*?")/s can start a match, C the
\* control character ch
EscapeStarts(text, from, ch) ==
  {i \in from..Len(text) :
     /\ text[i] = "\""
     /\ \E k \in (i + 2)..Len(text) :
          /\ text[k] = ch
          /\ text[k - 1] # "\\"
          /\ \E q \in (k + 1)..Len(text) : text[q] = "\""}

\* cleaned.replace(/(".*?[^\\])C(.*?")/gs, '$1\\\\L$2'), scanning from index
\* from: the replacement text '$1\\\\L$2' is $1, two backslashes, L, $2
RECURSIVE escapeControl(_, _, _, _)
escapeControl(text, from, ch, letter) ==
  IF EscapeStarts(text, from, ch) = {} THEN SubSeq(text, from, Len(text))
  ELSE
    LET i == Min(EscapeStarts(text, from, ch))
        k == Min({x \in (i + 2)..Len(text) :
                    /\ text[x] = ch
                    /\ text[x - 1] # "\\"
                    /\ \E q \in (x + 1)..Len(text) : text[q] = "\""})
        q == Min({x \in (k + 1)..Len(text) : text[x] = "\""})
    IN SubSeq(text, from, k - 1) \o <<"\\", "\\", letter>>
         \o SubSeq(text, k + 1, q) \o escapeControl(text, q + 1, ch, letter)

\* steps 1 to 3 of cleanJsonOutput
cleanJsonOutput(text) ==
  LET match == jsonMatch(text)
      step1 == IF match.found /\ match.group # <<>> THEN match.group ELSE text
      step2 == removeControl(step1)
      step3n == escapeControl(step2, 1, "\n", "n")
      step3r == escapeControl(step3n, 1, "\r", "r")
      step3t == escapeControl(step3r, 1, "\t", "t")
  IN step3t

(***************************************************************************)
(* cleanJsonOutput of the earlier route, src/unnamed/part_003 lines 7-23.   *)
(* Indices are those of the code: the first character has index 0.          *)
(***************************************************************************)
\* text.indexOf(c): -1 when c does not occur
indexOf(text, c) ==
  IF \E i \in 1..Len(text) : text[i] = c
  THEN Min({i \in 1..Len(text) : text[i] = c}) - 1
  ELSE -1

\* text.lastIndexOf(c): -1 when c does not occur
lastIndexOf(text, c) ==
  IF \E i \in 1..Len(text) : text[i] = c
  THEN (CHOOSE i \in 1..Len(text) :
          text[i] = c /\ \A j \in (i + 1)..Len(text) : text[j] # c) - 1
  ELSE -1

\* text.substring(a, b): the arguments are clamped to 0..length and swapped
\* when a > b
substring(text, a, b) ==
  LET clamp(x) == IF x < 0 THEN 0 ELSE IF x > Len(text) THEN Len(text) ELSE x
      lo == IF clamp(a) <= clamp(b) THEN clamp(a) ELSE clamp(b)
      hi == IF clamp(a) <= clamp(b) THEN clamp(b) ELSE clamp(a)
  IN SubSeq(text, lo + 1, hi)

\* the extraction with substring(start, end)
cleanJsonOutput_part003Exclusive(text) ==
  LET start == indexOf(text, "{")
      end == lastIndexOf(text, "}")
  IN IF start # -1 /\ end # -1 THEN substring(text, start, end) ELSE text

\* cleanJsonOutput of part_003
cleanJsonOutput_part003(text) ==
  LET start == indexOf(text, "{")
      end == lastIndexOf(text, "}")
  IN IF start # -1 /\ end # -1 THEN substring(text, start, end + 1) ELSE text

(***************************************************************************)
(* The corpus store and match_documents.  An embedding is an identifier;    *)
(* the cosine distance between two embeddings is tabulated in hundredths.   *)
(***************************************************************************)
QueryVectors == 1..3

\* documents.embedding <=> query_embedding, in hundredths: row = query
\* vector, column = stored embedding
CosineDistance(embedding, query) ==
  LET table == << <<20, 20, 90, 150>>,
                  <<95, 90, 100, 91>>,
                  <<70, 40, 10, 89>> >>
  IN table[query][embedding]

\* 1 - (documents.embedding <=> query_embedding)
Similarity(embedding, query) == 100 - CosineDistance(embedding, query)

Row(id, content, embedding) ==
  [id |-> id, content |-> content, embedding |-> embedding]

\* the contents of the documents table the behaviours start from
Stores ==
  { <<>>,
    <<Row(1, <<"c1">>, 1)>>,
    <<Row(1, <<"c1">>, 3), Row(2, <<"c2">>, 4)>>,
    <<Row(1, <<"c1">>, 1), Row(2, <<"c2">>, 2), Row(3, <<"c1">>, 3)>>,
    <<Row(1, <<"c1">>, 1), Row(2, <<"c2">>, 2), Row(3, <<"c3">>, 3),
      Row(4, <<"c4">>, 4), Row(5, <<"c5", "\n", "c6">>, 3),
      Row(6, <<"c2">>, 4)>> }

\* the rows of ORDER BY distance LIMIT n over the row indices in remaining:
\* rows at equal distance come in any order
RECURSIVE OrderedLimit(_, _, _, _)
OrderedLimit(table, query, remaining, n) ==
  IF n = 0 \/ remaining = {} THEN {<<>>}
  ELSE
    LET nearest == {i \in remaining : \A j \in remaining :
                      CosineDistance(table[i].embedding, query)
                        <= CosineDistance(table[j].embedding, query)}
    IN UNION {{<<i>> \o rest :
                 rest \in OrderedLimit(table, query, remaining \ {i}, n - 1)} :
              i \in nearest}

\* match_documents with >= in place of > in the WHERE clause
match_documentsAtLeast(table, query, match_threshold, match_count) ==
  LET above == {i \in 1..Len(table) :
                  Similarity(table[i].embedding, query) >= match_threshold}
  IN {[x \in 1..Len(order) |->
         [id |-> table[order[x]].id,
          content |-> table[order[x]].content,
          similarity |-> Similarity(table[order[x]].embedding, query)]] :
      order \in OrderedLimit(table, query, above, match_count)}

\* the results match_documents(query, threshold, count) can return
match_documents(table, query, match_threshold, match_count) ==
  LET above == {i \in 1..Len(table) :
                  Similarity(table[i].embedding, query) > match_threshold}
  IN {[x \in 1..Len(order) |->
         [id |-> table[order[x]].id,
          content |-> table[order[x]].content,
          similarity |-> Similarity(table[order[x]].embedding, query)]] :
      order \in OrderedLimit(table, query, above, match_count)}

\* match_threshold: 0.1, in hundredths
MatchThreshold == 10
\* match_count: 5
MatchCount == 5

(***************************************************************************)
(* Requests                                                                 *)
(***************************************************************************)
OptA == <<"A">>
OptB == <<"B">>
OptC == <<"C">>

\* a request body: valid is FALSE when req.json() throws; hasProblem and
\* hasOptions are FALSE when the property is undefined
Body(problem, options) ==
  [valid |-> TRUE, hasProblem |-> TRUE, problem |-> problem,
   hasOptions |-> TRUE, options |-> options]

Problems == { <<"p">>, <<>>, <<"p", "\n", "q">>, <<"NUL", "\t">> }

OptionLists ==
  { <<OptA, OptB>>, <<OptA, OptB, OptC>>, <<OptA>>, <<>>, <<OptA, OptA>>,
    <<OptA, <<>>>>, <<<<"A", "\t">>, OptA>>, <<<<"A", "DEL">>, OptB>> }

Bodies ==
  {Body(problem, <<OptA, OptB>>) : problem \in Problems}
  \cup {Body(<<"p">>, options) : options \in OptionLists}
  \cup { [Body(<<>>, <<>>) EXCEPT !.valid = FALSE],
         [Body(<<>>, <<OptA, OptB>>) EXCEPT !.hasProblem = FALSE],
         [Body(<<"p">>, <<>>) EXCEPT !.hasOptions = FALSE] }

\* options.join(", ")
RECURSIVE join(_, _)
join(list, separator) ==
  IF list = <<>> THEN <<>>
  ELSE IF Len(list) = 1 THEN list[1]
  ELSE list[1] \o separator \o join(Tail(list), separator)

\* documents.map(doc => doc.content)
contents(documents) == [i \in 1..Len(documents) |-> documents[i].content]

(***************************************************************************)
(* Generator texts.  An object case is a three-field answer written out in  *)
(* one of the ways a language model writes it; intent is the object the     *)
(* text is meant to denote.                                                 *)
(***************************************************************************)
Recs == {OptA, <<"Z">>}

KeyNames(keys) ==
  IF keys = "canonical"
  THEN <<"recommendation", "short_reason", "detailed_reasoning">>
  ELSE <<"selected_option", "reasoning", "rationale">>

\* the detailed reasoning of a case: with a line break unless nl = "none"
Detail(nl) == IF nl = "none" THEN <<"d">> ELSE <<"d", "\n", "e">>

Intent(rec, keys, nl) ==
  JObject(<<Member(<<KeyNames(keys)[1]>>, JString(rec)),
            Member(<<KeyNames(keys)[2]>>, JString(<<"s">>)),
            Member(<<KeyNames(keys)[3]>>, JString(Detail(nl)))>>)

\* a string literal for chars; a line break is written raw or as \n
RECURSIVE StringChars(_, _)
StringChars(chars, raw) ==
  IF chars = <<>> THEN <<>>
  ELSE (IF chars[1] = "\n" THEN (IF raw THEN <<"\n">> ELSE <<"\\", "n">>)
        ELSE IF chars[1] \in {"\"", "\\"} THEN <<"\\", chars[1]>>
        ELSE <<chars[1]>>) \o StringChars(Tail(chars), raw)

StringLiteral(chars, raw) == <<"\"">> \o StringChars(chars, raw) \o <<"\"">>

ObjectText(rec, keys, nl, pretty) ==
  LET gap == IF pretty THEN <<"\n", " ">> ELSE <<>>
      end == IF pretty THEN <<"\n">> ELSE <<>>
      key(i) == StringLiteral(<<KeyNames(keys)[i]>>, FALSE) \o <<":">>
  IN <<"{">> \o gap \o key(1) \o StringLiteral(rec, FALSE) \o <<",">>
       \o gap \o key(2) \o StringLiteral(<<"s">>, FALSE) \o <<",">>
       \o gap \o key(3) \o StringLiteral(Detail(nl), nl = "raw")
       \o end \o <<"}">>

Wrap(wrap, text) ==
  CASE wrap = "plain" -> text
    [] wrap = "fence_json" ->
         <<"BACKTICK", "BACKTICK", "BACKTICK", "json", "\n">> \o text
           \o <<"\n", "BACKTICK", "BACKTICK", "BACKTICK">>
    [] wrap = "fence" ->
         <<"BACKTICK", "BACKTICK", "BACKTICK", "\n">> \o text
           \o <<"\n", "BACKTICK", "BACKTICK", "BACKTICK">>
    [] wrap = "preamble" -> <<"Here", " ", "is", " ", "the", " ", "answer", ":", "\n">> \o text

ObjectCase(rec, keys, nl, wrap, pretty) ==
  [kind |-> "object", intent |-> Intent(rec, keys, nl), nl |-> nl,
   wrap |-> wrap, text |-> Wrap(wrap, ObjectText(rec, keys, nl, pretty))]

ObjectCases ==
  {ObjectCase(rec, "canonical", nl, wrap, pretty) :
     rec \in Recs, nl \in {"none", "escaped", "raw"},
     wrap \in {"plain", "fence_json", "fence", "preamble"},
     pretty \in BOOLEAN}
  \cup {ObjectCase(OptA, "alias", "none", wrap, FALSE) :
          wrap \in {"plain", "fence_json"}}

OtherTexts ==
  { <<>>,
    <<"I", " ", "recommend", " ", "A">>,
    <<"null">>,
    <<"4", "2">>,
    <<"[", "]">>,
    <<"{", "}">>,
    <<"\"", "A", "\"">>,
    <<"{", "\"", "recommendation", "\"", ":", "1", "}">>,
    <<"{", "\"", "recommendation", "\"", ":", "\"", "A", "\"", "}">>,
    <<"{", "\"", "recommendation", "\"", ":", "\"", "A", "DEL", "\"", "}">>,
    <<"{", "\"", "recommendation", "\"", ":", "\"", "A", "\"">>,
    <<"{", "\"", "recommendation", "\"", ":", "\"", "A", "\t", "\"", "}", "DEL">> }

OtherCases ==
  {[kind |-> "other", intent |-> JNull, nl |-> "none", wrap |-> "plain",
    text |-> text] : text \in OtherTexts}

GenCases == ObjectCases \cup OtherCases

NoCase ==
  [kind |-> "none", intent |-> JNull, nl |-> "none", wrap |-> "plain",
   text |-> <<>>]

(***************************************************************************)
(* Responses                                                                *)
(***************************************************************************)
\* Response.json(body, { status })
Response(status, body) == [status |-> status, body |-> body]

NoResponse == Response(0, JNull)

\* { error: text }
ErrorBody(text) == JObject(<<Member(<<"error">>, JString(text))>>)

\* e.message || "Unknown Server Error"
messageOrUnknown(message) ==
  IF message = <<>> THEN <<"Unknown Server Error">> ELSE message

DecisionResult(recommendation, short_reason, detailed_reasoning) ==
  JObject(<<Member(<<"recommendation">>, JString(recommendation)),
            Member(<<"short_reason">>, JString(short_reason)),
            Member(<<"detailed_reasoning">>, JString(detailed_reasoning))>>)

\* the payload of the strictness check
NoGroundingPayload ==
  DecisionResult(
    <<"Unable to analyze.">>,
    <<"No relevant frameworks found in your book library.">>,
    <<"The system searched your uploaded books but could not find a mental model that applies to this specific problem. Please try rephrasing your problem or adding more books to the database.">>)

\* `${parseError}` and `${repairError}`: the engine's SyntaxError text
SyntaxErrorText == <<"SyntaxError: Unexpected token">>

\* the payload returned when the repaired text does not parse either, built
\* around the text cleanJsonOutput produced
RepairFailedPayloadOfCleaned(raw, cleaned) ==
  DecisionResult(
    <<"Analysis failed.">>,
    <<"Could not parse AI response due to malformed JSON.">>,
    <<"The AI generated an unparseable response. Original parsing error: ">>
      \o SyntaxErrorText \o <<". Repair attempt error: ">>
      \o SyntaxErrorText \o <<". Raw output: ">> \o cleaned)

\* the payload returned when the repaired text does not parse either
RepairFailedPayload(raw, cleaned) ==
  DecisionResult(
    <<"Analysis failed.">>,
    <<"Could not parse AI response due to malformed JSON.">>,
    <<"The AI generated an unparseable response. Original parsing error: ">>
      \o SyntaxErrorText \o <<". Repair attempt error: ">>
      \o SyntaxErrorText \o <<". Raw output: ">> \o raw)

\* the outer catch with the status of a busy provider
caughtAsBusy(message) == Response(503, ErrorBody(messageOrUnknown(message)))

\* the outer catch, lines 168-171: an error thrown inside the try ends the
\* request with status 500 and { error: e.message || "Unknown Server Error" }
caught(message) == Response(500, ErrorBody(messageOrUnknown(message)))

\* the status of the response sent when the repaired text does not parse
RepairFailedStatus == 500

\* lines 147-153: the steps run on the text, in the order they run
repairStages(rawOutputString) ==
  IF JSONparse(rawOutputString).ok THEN <<"parse">>
  ELSE <<"parse", "fence", "remove_control", "escape", "parse">>

\* the text cleaned before the first parse
parseAndRespondCleanFirst(rawOutputString) ==
  LET cleanedOutput == cleanJsonOutput(rawOutputString)
      second == JSONparse(cleanedOutput)
  IN IF second.ok THEN Response(200, second.val)
     ELSE Response(RepairFailedStatus,
                   RepairFailedPayload(rawOutputString, cleanedOutput))

\* lines 143-166: parse, repair and re-parse, and the response that results
parseAndRespond(rawOutputString) ==
  LET first == JSONparse(rawOutputString)
      cleanedOutput == cleanJsonOutput(rawOutputString)
      second == JSONparse(cleanedOutput)
  IN IF first.ok THEN Response(200, first.val)
     ELSE IF second.ok THEN Response(200, second.val)
     ELSE Response(RepairFailedStatus,
                   RepairFailedPayload(rawOutputString, cleanedOutput))

(***************************************************************************)
(* State                                                                    *)
(***************************************************************************)
VARIABLES
  env,              \* which of the four credentials the process has
  documents_table,  \* the rows of the documents table
  nReq,             \* requests started so far
  pc,               \* where the current request is
  body,             \* the body of the current request
  bodyRead,         \* req.json() was called
  problem,          \* the sanitized problem
  options,          \* the sanitized options
  vector,           \* the query embedding, 0 before it is known
  documents,        \* data of the rpc: [isNull, rows]
  error,            \* the rpc reported an error
  contextText,      \* the grounding block
  prompt,           \* the slots passed to chain.invoke
  generated,        \* the case the Generator answered with
  rawOutputString,  \* rawAiResponse.content
  response,         \* the response of the current request
  calls,            \* invocations made by the current request
  embedInput,       \* the text passed to embeddings.embedQuery
  stages,           \* the parse and repair steps run on the Generator text
  result,           \* the result state of the page, JNull for null
  alertMessage,     \* the text of the alert the page showed, <<>> for none
  clientDone,       \* handleSubmit of the page has handled the response
  probe,            \* input and output of a function applied on its own
  loading,          \* the page's loading flag
  exampleLoaded,    \* Load Example was clicked and nothing submitted since
  requests          \* the locals of each of the requests running concurrently

vars ==
  <<env, documents_table, nReq, pc, body, bodyRead, problem, options, vector,
    documents, error, contextText, prompt, generated, rawOutputString,
    response, calls, embedInput, stages, result, alertMessage, clientDone,
    probe, loading, exampleLoaded, requests>>

Credentials == {"SUPABASE_URL", "SUPABASE_KEY", "GROQ_KEY", "HF_TOKEN"}

NoCalls == [embed |-> 0, rpc |-> 0, prompt |-> 0, generate |-> 0]

NoDocuments == [isNull |-> TRUE, rows |-> <<>>]

NoPrompt == [built |-> FALSE, context |-> <<>>, problem |-> <<>>, options |-> <<>>]

NoBody == [Body(<<>>, <<>>) EXCEPT !.valid = FALSE]

NoProbe == [fn |-> "none"]

\* no concurrent request is modelled
NoRequests == <<>>

Init ==
  /\ env \in [Credentials -> BOOLEAN]
  /\ documents_table \in Stores
  /\ nReq = 0
  /\ pc = "idle"
  /\ body = NoBody
  /\ bodyRead = FALSE
  /\ problem = <<>>
  /\ options = <<>>
  /\ vector = 0
  /\ documents = NoDocuments
  /\ error = FALSE
  /\ contextText = <<>>
  /\ prompt = NoPrompt
  /\ generated = NoCase
  /\ rawOutputString = <<>>
  /\ response = NoResponse
  /\ calls = NoCalls
  /\ embedInput = <<>>
  /\ stages = <<>>
  /\ result = JNull
  /\ alertMessage = <<>>
  /\ clientDone = FALSE
  /\ probe = NoProbe
  /\ loading = FALSE
  /\ exampleLoaded = FALSE
  /\ requests = NoRequests

\* the check without the embedding token
missingKeysButToken(e) == \E c \in Credentials \ {"HF_TOKEN"} : ~e[c]

\* !SUPABASE_URL || !SUPABASE_KEY || !GROQ_KEY || !HF_TOKEN
missingKeys(e) == \E c \in Credentials : ~e[c]

\* the request ends with the response r
respond(r) ==
  /\ response' = r
  /\ pc' = "done"

(***************************************************************************)
(* POST, from its start to the call of embeddings.embedQuery                *)
(***************************************************************************)
POST(b) ==
  /\ pc \in {"idle", "done"}
  /\ ~loading
  /\ nReq < MaxRequests
  /\ loading' = TRUE
  /\ exampleLoaded' = FALSE
  /\ nReq' = nReq + 1
  /\ body' = b
  /\ vector' = 0
  /\ documents' = NoDocuments
  /\ error' = FALSE
  /\ contextText' = <<>>
  /\ prompt' = NoPrompt
  /\ generated' = NoCase
  /\ rawOutputString' = <<>>
  /\ stages' = <<>>
  /\ result' = JNull
  /\ alertMessage' = <<>>
  /\ clientDone' = FALSE
  /\ UNCHANGED <<env, documents_table, probe, requests>>
  /\ IF missingKeys(env) THEN
       /\ respond(Response(500, ErrorBody(<<"Missing API Keys in .env">>)))
       /\ bodyRead' = FALSE
       /\ problem' = <<>>
       /\ options' = <<>>
       /\ calls' = NoCalls
       /\ embedInput' = <<>>
     ELSE IF ~b.valid THEN
       \* req.json() throws
       /\ respond(caught(SyntaxErrorText))
       /\ bodyRead' = TRUE
       /\ problem' = <<>>
       /\ options' = <<>>
       /\ calls' = NoCalls
       /\ embedInput' = <<>>
     ELSE IF ~b.hasProblem THEN
       \* sanitizeInput(undefined) throws
       /\ respond(caught(
            <<"Cannot read properties of undefined (reading 'replace')">>))
       /\ bodyRead' = TRUE
       /\ problem' = <<>>
       /\ options' = <<>>
       /\ calls' = NoCalls
       /\ embedInput' = <<>>
     ELSE IF ~b.hasOptions THEN
       \* rawOptions.map throws
       /\ respond(caught(
            <<"Cannot read properties of undefined (reading 'map')">>))
       /\ bodyRead' = TRUE
       /\ problem' = sanitizeInput(b.problem)
       /\ options' = <<>>
       /\ calls' = NoCalls
       /\ embedInput' = <<>>
     ELSE
       /\ bodyRead' = TRUE
       /\ problem' = sanitizeInput(b.problem)
       /\ options' = [i \in 1..Len(b.options) |-> sanitizeInput(b.options[i])]
       /\ calls' = [NoCalls EXCEPT !.embed = 1]
       /\ embedInput' = sanitizeInput(b.problem)
       /\ response' = NoResponse
       /\ pc' = "embed"

(***************************************************************************)
(* embedQuery settles: lines 63-79                                          *)
(***************************************************************************)
\* embedQuery called again after its first failure
EmbedQueryThrowsAndRetries ==
  /\ pc = "embed"
  /\ UNCHANGED <<embedInput, stages, result, alertMessage, clientDone, probe,
                 loading, exampleLoaded, requests>>
  /\ IF calls.embed < 2
     THEN /\ calls' = [calls EXCEPT !.embed = @ + 1]
          /\ UNCHANGED <<pc, response>>
     ELSE /\ respond(Response(503, ErrorBody(
               <<"Hugging Face is busy. Please try again in 5 seconds.">>)))
          /\ UNCHANGED calls
  /\ UNCHANGED <<env, documents_table, nReq, body, bodyRead, problem, options,
                 vector, documents, error, contextText, prompt, generated,
                 rawOutputString>>

EmbedQueryThrows ==
  /\ pc = "embed"
  /\ UNCHANGED <<embedInput, stages, result, alertMessage, clientDone, probe,
                 loading, exampleLoaded, requests>>
  /\ respond(Response(503, ErrorBody(
       <<"Hugging Face is busy. Please try again in 5 seconds.">>)))
  /\ UNCHANGED <<env, documents_table, nReq, body, bodyRead, problem, options,
                 vector, documents, error, contextText, prompt, generated,
                 rawOutputString, calls>>

\* chain.invoke started together with the rpc, before its data is known
EmbedQueryReturnsAndGenerates(v) ==
  /\ pc = "embed"
  /\ UNCHANGED <<embedInput, stages, result, alertMessage, clientDone, probe,
                 loading, exampleLoaded, requests>>
  /\ vector' = v
  /\ calls' = [calls EXCEPT !.rpc = @ + 1, !.generate = @ + 1]
  /\ pc' = "generate"
  /\ UNCHANGED <<env, documents_table, nReq, body, bodyRead, problem, options,
                 documents, error, contextText, prompt, generated,
                 rawOutputString, response>>

EmbedQueryReturns(v) ==
  /\ pc = "embed"
  /\ UNCHANGED <<embedInput, stages, result, alertMessage, clientDone, probe,
                 loading, exampleLoaded, requests>>
  /\ vector' = v
  /\ calls' = [calls EXCEPT !.rpc = @ + 1]
  /\ pc' = "rpc"
  /\ UNCHANGED <<env, documents_table, nReq, body, bodyRead, problem, options,
                 documents, error, contextText, prompt, generated,
                 rawOutputString, response>>

(***************************************************************************)
(* supabase.rpc settles: lines 81-141                                       *)
(***************************************************************************)
\* what the rpc can resolve to: an error, null data, or a result of
\* match_documents
RpcOutcomes ==
  {[error |-> TRUE, data |-> NoDocuments], [error |-> FALSE, data |-> NoDocuments]}
  \cup {[error |-> FALSE, data |-> [isNull |-> FALSE, rows |-> rows]] :
        rows \in IF vector \in QueryVectors
                 THEN match_documents(documents_table, vector,
                                      MatchThreshold, MatchCount)
                 ELSE {}}

\* the error of the rpc left unchecked
searchFailedUnchecked(outcome) == FALSE

\* if (error)
searchFailed(outcome) == outcome.error

\* !documents alone
noDocumentsNullOnly(data) == data.isNull

\* !documents || documents.length === 0
noDocuments(data) == data.isNull \/ Len(data.rows) = 0

\* the join with the separator after the last content as well
assembleContextTrailing(rows) ==
  join(contents(rows), <<"\n", "---", "\n">>) \o <<"\n", "---", "\n">>

\* documents.map(doc => doc.content).join("\n---\n")
assembleContext(rows) == join(contents(rows), <<"\n", "---", "\n">>)

RpcReturns(outcome) ==
  /\ pc = "rpc"
  /\ UNCHANGED <<embedInput, stages, result, alertMessage, clientDone, probe,
                 loading, exampleLoaded, requests>>
  /\ documents' = outcome.data
  /\ error' = outcome.error
  /\ UNCHANGED <<env, documents_table, nReq, body, bodyRead, problem, options,
                 vector, generated, rawOutputString>>
  /\ IF searchFailed(outcome) THEN
       /\ respond(caught(<<"Database search failed.">>))
       /\ UNCHANGED <<contextText, prompt, calls>>
     ELSE IF noDocuments(outcome.data) THEN
       /\ respond(Response(200, NoGroundingPayload))
       /\ UNCHANGED <<contextText, prompt, calls>>
     ELSE
       /\ contextText' = assembleContext(outcome.data.rows)
       /\ prompt' = [built |-> TRUE,
                     context |-> assembleContext(outcome.data.rows),
                     problem |-> problem,
                     options |-> join(options, <<",", " ">>)]
       /\ calls' = [calls EXCEPT !.prompt = @ + 1, !.generate = @ + 1]
       /\ pc' = "generate"
       /\ UNCHANGED response

(***************************************************************************)
(* chain.invoke settles: lines 136-171                                      *)
(***************************************************************************)
\* the messages of the errors chain.invoke can throw
GeneratorErrors == {<<"Groq request failed">>, <<>>}

ChainInvokeThrows(message) ==
  /\ pc = "generate"
  /\ UNCHANGED <<embedInput, stages, result, alertMessage, clientDone, probe,
                 loading, exampleLoaded, requests>>
  /\ respond(caught(message))
  /\ UNCHANGED <<env, documents_table, nReq, body, bodyRead, problem, options,
                 vector, documents, error, contextText, prompt, generated,
                 rawOutputString, calls>>

ChainInvokeReturns(g) ==
  /\ pc = "generate"
  /\ UNCHANGED <<embedInput, result, alertMessage, clientDone, probe,
                 loading, exampleLoaded, requests>>
  /\ generated' = g
  /\ rawOutputString' = g.text
  /\ stages' = repairStages(g.text)
  /\ respond(parseAndRespond(g.text))
  /\ UNCHANGED <<env, documents_table, nReq, body, bodyRead, problem, options,
                 vector, documents, error, contextText, prompt, calls>>

(***************************************************************************)
(* The page: handleSubmit from the response on, src/app/page.tsx 41-62      *)
(***************************************************************************)
JUndefined == JLiteral("undefined")

\* the truth value of a JSON value in a condition or under ||
truthy(val) ==
  CASE val.t = "string" -> val.v # <<>>
    [] val.t = "number" -> val.v # <<"0">>
    [] val.t \in {"null", "undefined", "false"} -> FALSE
    [] OTHER -> TRUE

\* rawData.key of a rawData that is not null
property(rawData, key) ==
  IF HasField(rawData, <<key>>) THEN Field(rawData, <<key>>) ELSE JUndefined

\* a || b || ... || fallback over the values in list
RECURSIVE orElse(_, _)
orElse(list, fallback) ==
  IF list = <<>> THEN fallback
  ELSE IF truthy(list[1]) THEN list[1]
  ELSE orElse(Tail(list), fallback)

\* line 50
recommendationOf(rawData) ==
  orElse(<<property(rawData, "recommendation"),
           property(rawData, "selected_option")>>,
         JString(<<"Decision Made">>))

\* the short reason with reasoning tried before rationale
shortReasonOfReasoningFirst(rawData) ==
  orElse(<<property(rawData, "short_reason"), property(rawData, "reasoning"),
           property(rawData, "rationale")>>,
         JString(<<"View details for reasoning.">>))

\* line 51
shortReasonOf(rawData) ==
  orElse(<<property(rawData, "short_reason"), property(rawData, "rationale"),
           property(rawData, "reasoning")>>,
         JString(<<"View details for reasoning.">>))

\* line 52
detailedReasoningOf(rawData) ==
  orElse(<<property(rawData, "detailed_reasoning"),
           property(rawData, "rationale")>>,
         JString(<<"No detailed context provided.">>))

\* lines 49-53 for a rawData that is not null
adaptedResult(rawData) ==
  JObject(<<Member(<<"recommendation">>, recommendationOf(rawData)),
            Member(<<"short_reason">>, shortReasonOf(rawData)),
            Member(<<"detailed_reasoning">>, detailedReasoningOf(rawData))>>)

\* String(value) for the message of new Error(value)
messageText(val) ==
  IF val.t = "string" THEN val.v ELSE <<"String(value)">>

\* lines 41-59 on a response that arrived: [result, alert]
handleResponse(r) ==
  IF r.body.t = "null" THEN
    \* rawData.error or rawData.recommendation throws a TypeError
    [result |-> JNull,
     alert |-> <<"Error: ", "Cannot read properties of null">>]
  ELSE IF r.status \notin 200..299 THEN
    [result |-> JNull,
     alert |-> <<"Error: ">> \o
       messageText(orElse(<<property(r.body, "error")>>,
                          JString(<<"Analysis failed">>)))]
  ELSE [result |-> adaptedResult(r.body), alert |-> <<>>]

\* handleSubmit without its finally block
HandleSubmitContinuesNoFinally ==
  /\ pc = "done"
  /\ ~clientDone
  /\ clientDone' = TRUE
  /\ loading' = (handleResponse(response).alert # <<>>)
  /\ result' = handleResponse(response).result
  /\ alertMessage' = handleResponse(response).alert
  /\ UNCHANGED <<env, documents_table, nReq, pc, body, bodyRead, problem,
                 options, vector, documents, error, contextText, prompt,
                 generated, rawOutputString, response, calls, embedInput,
                 stages, probe, exampleLoaded, requests>>

HandleSubmitContinues ==
  /\ pc = "done"
  /\ ~clientDone
  /\ clientDone' = TRUE
  /\ loading' = FALSE
  /\ result' = handleResponse(response).result
  /\ alertMessage' = handleResponse(response).alert
  /\ UNCHANGED <<env, documents_table, nReq, pc, body, bodyRead, problem,
                 options, vector, documents, error, contextText, prompt,
                 generated, rawOutputString, response, calls, embedInput,
                 stages, probe, exampleLoaded, requests>>

\* lines 35-62 when fetch or response.json() rejects: the catch shows the
\* alert and the finally block ends the loading
FetchRejects ==
  /\ pc = "done"
  /\ ~clientDone
  /\ clientDone' = TRUE
  /\ loading' = FALSE
  /\ result' = JNull
  /\ alertMessage' = <<"Error: ", "Failed to fetch">>
  /\ UNCHANGED <<env, documents_table, nReq, pc, body, bodyRead, problem,
                 options, vector, documents, error, contextText, prompt,
                 generated, rawOutputString, response, calls, embedInput,
                 stages, probe, exampleLoaded, requests>>

\* handleLoadExample of the page of src/unnamed/part_003, lines 173-178; the
\* button is enabled whatever loading is
HandleLoadExample ==
  /\ ~exampleLoaded
  /\ exampleLoaded' = TRUE
  /\ result' = JNull
  /\ UNCHANGED <<env, documents_table, nReq, pc, body, bodyRead, problem,
                 options, vector, documents, error, contextText, prompt,
                 generated, rawOutputString, response, calls, embedInput,
                 stages, alertMessage, clientDone, probe, loading, requests>>

Next ==
  \/ \E b \in Bodies : POST(b)
  \/ HandleSubmitContinues
  \/ FetchRejects
  \/ HandleLoadExample
  \/ EmbedQueryThrows
  \/ \E v \in QueryVectors : EmbedQueryReturns(v)
  \/ \E outcome \in RpcOutcomes : RpcReturns(outcome)
  \/ \E message \in GeneratorErrors : ChainInvokeThrows(message)
  \/ \E g \in GenCases : ChainInvokeReturns(g)

Spec == Init /\ [][Next]_vars

\* The steps the program takes by itself are fair: the page handles a
\* response that has arrived.  The answers of the three providers are not:
\* a provider may never answer, and neither embedQuery (line 65), supabase.rpc
\* (line 75) nor chain.invoke (line 136) is given a timeout or an abort
\* signal, so no step of the route ends a wait.
LiveSpec == Spec /\ WF_vars(HandleSubmitContinues \/ FetchRejects)

(***************************************************************************)
(* Functions applied on their own: probe holds the input drawn at the       *)
(* start and, once done, the output.                                        *)
(***************************************************************************)
\* thresholds in hundredths
MatchThresholds == {0, 10, 60, 80}

MatchProbes ==
  [fn : {"match_documents"}, table : Stores, query : QueryVectors,
   threshold : MatchThresholds, count : 0..MaxMatchCount,
   out : {<<>>}, done : {FALSE}, again : {<<>>}, doneAgain : {FALSE}]

RECURSIVE TextsOfLength(_)
TextsOfLength(n) ==
  IF n = 0 THEN {<<>>}
  ELSE {Append(t, c) : t \in TextsOfLength(n - 1), c \in {"{", "}", "a"}}

BraceTexts == UNION {TextsOfLength(n) : n \in 0..MaxTextLen}

BraceProbes ==
  [fn : {"cleanJsonOutput_part003"}, text : BraceTexts, out : {<<>>},
   done : {FALSE}]

\* the names a raw payload can use
PayloadKeys ==
  <<"recommendation", "selected_option", "short_reason", "rationale",
    "reasoning", "detailed_reasoning">>

\* the value a payload carries under key in the given form
PayloadValue(key, form) ==
  CASE form = "null" -> JNull
    [] form = "empty" -> JString(<<>>)
    [] OTHER -> JString(<<"value of ", key>>)

\* the members of the payload that gives its i-th and later keys the forms
\* in forms; "absent" leaves the key out
RECURSIVE PayloadMembers(_, _)
PayloadMembers(forms, i) ==
  IF i > Len(PayloadKeys) THEN <<>>
  ELSE (IF forms[PayloadKeys[i]] = "absent" THEN <<>>
        ELSE <<Member(<<PayloadKeys[i]>>,
                      PayloadValue(PayloadKeys[i], forms[PayloadKeys[i]]))>>)
       \o PayloadMembers(forms, i + 1)

Payloads ==
  {JObject(PayloadMembers(forms, 1)) :
     forms \in [{PayloadKeys[i] : i \in 1..Len(PayloadKeys)} ->
                 {"absent", "null", "empty", "text"}]}
  \cup {JNumber(<<"4", "2">>), JString(<<"A">>), JArray(<<>>),
         JObject(<<Member(<<"recommendation">>, JNumber(<<"0">>)),
                   Member(<<"selected_option">>, JNumber(<<"7">>))>>)}

AdapterProbes ==
  [fn : {"adaptedResult"}, rawData : Payloads, out : {JNull}, done : {FALSE}]

\* the dimension of documents.embedding and of query_embedding: vector(384)
SchemaDimension == 384

\* the length of the vectors of an embedding model: 384 for
\* all-MiniLM-L6-v2 (migration, line 16), 768 for text-embedding-004
\* (src/scripts/add-books.ts, lines 38-41)
EmbeddingDimension(model) ==
  CASE model = "sentence-transformers/all-MiniLM-L6-v2" -> 384
    [] model = "text-embedding-004" -> 768

\* the embedding model of the decide route, route.ts line 60
RouteEmbeddingModel == "sentence-transformers/all-MiniLM-L6-v2"

\* the embedding model each ingestion script constructs
IngestionModel(script) ==
  CASE script = "src/scripts/force-ingest.ts" ->
         "sentence-transformers/all-MiniLM-L6-v2"
    [] script = "src/scripts/add-books.ts" -> "text-embedding-004"
    [] script = "src/unnamed/part_004" ->
         "sentence-transformers/all-MiniLM-L6-v2"

IngestionScripts ==
  {"src/scripts/force-ingest.ts", "src/scripts/add-books.ts",
   "src/unnamed/part_004"}

\* a run of an ingestion script over chunks: sent is the length of each
\* vector it sends to the documents table, stored the chunks the table took
IngestProbes ==
  [fn : {"ingest"}, script : IngestionScripts,
   chunks : {<<<<"c1">>>>, <<<<"c1">>, <<"c2">>>>},
   sent : {0}, stored : {<<>>}, done : {FALSE}]

InitFn ==
  /\ env = [c \in Credentials |-> TRUE]
  /\ documents_table = <<>>
  /\ nReq = 0
  /\ pc = "idle"
  /\ body = NoBody
  /\ bodyRead = FALSE
  /\ problem = <<>>
  /\ options = <<>>
  /\ vector = 0
  /\ documents = NoDocuments
  /\ error = FALSE
  /\ contextText = <<>>
  /\ prompt = NoPrompt
  /\ generated = NoCase
  /\ rawOutputString = <<>>
  /\ response = NoResponse
  /\ calls = NoCalls
  /\ embedInput = <<>>
  /\ stages = <<>>
  /\ result = JNull
  /\ alertMessage = <<>>
  /\ clientDone = FALSE
  /\ loading = FALSE
  /\ exampleLoaded = FALSE
  /\ requests = NoRequests
  /\ \/ probe \in MatchProbes
     \/ probe \in BraceProbes
     \/ probe \in AdapterProbes
     \/ probe \in IngestProbes

programVars ==
  <<env, documents_table, nReq, pc, body, bodyRead, problem, options, vector,
    documents, error, contextText, prompt, generated, rawOutputString,
    response, calls, embedInput, stages, result, alertMessage, clientDone,
    loading, exampleLoaded, requests>>

ApplyMatchDocuments ==
  /\ probe.fn = "match_documents"
  /\ ~probe.done
  /\ \E rows \in match_documents(probe.table, probe.query, probe.threshold,
                                  probe.count) :
       probe' = [probe EXCEPT !.out = rows, !.done = TRUE]
  /\ UNCHANGED programVars

\* the same search run a second time on the same table
ApplyMatchDocumentsAgain ==
  /\ probe.fn = "match_documents"
  /\ probe.done
  /\ ~probe.doneAgain
  /\ \E rows \in match_documents(probe.table, probe.query, probe.threshold,
                                  probe.count) :
       probe' = [probe EXCEPT !.again = rows, !.doneAgain = TRUE]
  /\ UNCHANGED programVars

\* SupabaseVectorStore.fromDocuments: the insert into a vector(384) column
\* fails for a vector of another length and the script logs the failure
ApplyIngest ==
  /\ probe.fn = "ingest"
  /\ ~probe.done
  /\ LET n == EmbeddingDimension(IngestionModel(probe.script))
     IN probe' = [probe EXCEPT
                    !.sent = n,
                    !.stored = IF n = SchemaDimension THEN probe.chunks
                               ELSE <<>>,
                    !.done = TRUE]
  /\ UNCHANGED programVars

ApplyBraceExtraction ==
  /\ probe.fn = "cleanJsonOutput_part003"
  /\ ~probe.done
  /\ probe' = [probe EXCEPT !.out = cleanJsonOutput_part003(probe.text),
                            !.done = TRUE]
  /\ UNCHANGED programVars

ApplyAdapter ==
  /\ probe.fn = "adaptedResult"
  /\ ~probe.done
  /\ probe' = [probe EXCEPT !.out = adaptedResult(probe.rawData),
                            !.done = TRUE]
  /\ UNCHANGED programVars

NextFn ==
  \/ ApplyMatchDocuments
  \/ ApplyMatchDocumentsAgain
  \/ ApplyIngest
  \/ ApplyBraceExtraction
  \/ ApplyAdapter

FnSpec == InitFn /\ [][NextFn]_vars

(***************************************************************************)
(* Concurrent requests.  Every invocation of POST has its own locals        *)
(* (problem, options, vector, documents, contextText, rawOutputString are    *)
(* const or let inside the function, route.ts 50-143); the module holds only *)
(* the four constants read from the environment (lines 8-11).  requests[r]   *)
(* holds the locals of invocation r, and beside them what the providers      *)
(* gave to r: embedded, provider, message, text, and the table as r found it.*)
(***************************************************************************)
ConcRequestIds == 1..MaxConcurrent

ConcBodies ==
  {Body(<<"p">>, <<OptA, OptB>>), Body(<<"p", "\n", "q">>, <<OptA, OptB, OptC>>)}

ConcStores ==
  { <<Row(1, <<"c1">>, 1)>>,
    <<Row(1, <<"c1">>, 3), Row(2, <<"c2">>, 4)>> }

ConcTexts ==
  { ObjectText(OptA, "canonical", "none", FALSE),
    <<"I", " ", "recommend", " ", "A">>,
    <<"null">> }

IdleRequest ==
  [pc |-> "idle", body |-> NoBody, store |-> <<>>, overlapped |-> FALSE,
   problem |-> <<>>, options |-> <<>>, vector |-> 0, embedded |-> 0,
   documents |-> NoDocuments, contextText |-> <<>>, provider |-> "none",
   message |-> <<>>, text |-> <<>>, response |-> NoResponse]

InitConc ==
  /\ env = [c \in Credentials |-> TRUE]
  /\ documents_table \in ConcStores
  /\ nReq = 0
  /\ pc = "idle"
  /\ body = NoBody
  /\ bodyRead = FALSE
  /\ problem = <<>>
  /\ options = <<>>
  /\ vector = 0
  /\ documents = NoDocuments
  /\ error = FALSE
  /\ contextText = <<>>
  /\ prompt = NoPrompt
  /\ generated = NoCase
  /\ rawOutputString = <<>>
  /\ response = NoResponse
  /\ calls = NoCalls
  /\ embedInput = <<>>
  /\ stages = <<>>
  /\ result = JNull
  /\ alertMessage = <<>>
  /\ clientDone = FALSE
  /\ probe = NoProbe
  /\ loading = FALSE
  /\ exampleLoaded = FALSE
  /\ requests = [r \in ConcRequestIds |-> IdleRequest]

\* everything but requests
sequentialVars ==
  <<env, documents_table, nReq, pc, body, bodyRead, problem, options, vector,
    documents, error, contextText, prompt, generated, rawOutputString,
    response, calls, embedInput, stages, result, alertMessage, clientDone,
    probe, loading, exampleLoaded>>

\* invocation r ends with the response resp
ended(r, provider, resp) ==
  [requests[r] EXCEPT !.pc = "done", !.provider = provider, !.response = resp]

\* lines 42-65 of invocation r
ConcPOST(r, b) ==
  /\ requests[r].pc = "idle"
  /\ ~missingKeys(env)
  /\ requests' =
       [x \in ConcRequestIds |->
          IF x = r
          THEN [requests[r] EXCEPT
                  !.pc = "embed",
                  !.body = b,
                  !.store = documents_table,
                  !.overlapped =
                     \E y \in ConcRequestIds \ {r} :
                       requests[y].pc \in {"embed", "rpc", "generate"},
                  !.problem = sanitizeInput(b.problem),
                  !.options = [i \in 1..Len(b.options) |->
                                 sanitizeInput(b.options[i])]]
          ELSE IF requests[x].pc \in {"embed", "rpc", "generate"}
          THEN [requests[x] EXCEPT !.overlapped = TRUE]
          ELSE requests[x]]
  /\ UNCHANGED sequentialVars

\* lines 66-69 of invocation r
ConcEmbedQueryThrows(r) ==
  /\ requests[r].pc = "embed"
  /\ requests' =
       [requests EXCEPT ![r] = ended(r, "embed_throws", Response(503, ErrorBody(
          <<"Hugging Face is busy. Please try again in 5 seconds.">>)))]
  /\ UNCHANGED sequentialVars

\* the vector kept in one variable of the module, which every invocation
\* reads
ConcEmbedQueryReturnsShared(r, v) ==
  /\ requests[r].pc = "embed"
  /\ requests' =
       [x \in ConcRequestIds |->
          IF x = r
          THEN [requests[r] EXCEPT !.vector = v, !.embedded = v, !.pc = "rpc"]
          ELSE [requests[x] EXCEPT !.vector = v]]
  /\ UNCHANGED sequentialVars

\* line 65 of invocation r returns v; lines 72-79 start the search
ConcEmbedQueryReturns(r, v) ==
  /\ requests[r].pc = "embed"
  /\ requests' =
       [requests EXCEPT ![r] =
          [requests[r] EXCEPT !.vector = v, !.embedded = v, !.pc = "rpc"]]
  /\ UNCHANGED sequentialVars

\* what the rpc of invocation r can resolve to
ConcRpcOutcomes(r) ==
  {[error |-> TRUE, data |-> NoDocuments], [error |-> FALSE, data |-> NoDocuments]}
  \cup {[error |-> FALSE, data |-> [isNull |-> FALSE, rows |-> rows]] :
        rows \in IF requests[r].vector \in QueryVectors
                 THEN match_documents(documents_table, requests[r].vector,
                                      MatchThreshold, MatchCount)
                 ELSE {}}

\* lines 81-141 of invocation r
ConcRpcReturns(r) ==
  /\ requests[r].pc = "rpc"
  /\ \E outcome \in ConcRpcOutcomes(r) :
       requests' =
         [requests EXCEPT ![r] =
            IF searchFailed(outcome)
            THEN [ended(r, "rpc_error", caught(<<"Database search failed.">>))
                    EXCEPT !.documents = outcome.data]
            ELSE IF noDocuments(outcome.data)
            THEN [ended(r, "rpc_data", Response(200, NoGroundingPayload))
                    EXCEPT !.documents = outcome.data]
            ELSE [requests[r] EXCEPT
                    !.documents = outcome.data,
                    !.provider = "rpc_data",
                    !.contextText = assembleContext(outcome.data.rows),
                    !.pc = "generate"]]
  /\ UNCHANGED sequentialVars

\* lines 168-171 of invocation r after chain.invoke threw
ConcChainInvokeThrows(r, message) ==
  /\ requests[r].pc = "generate"
  /\ requests' =
       [requests EXCEPT ![r] =
          [ended(r, "generate_throws", caught(message))
             EXCEPT !.message = message]]
  /\ UNCHANGED sequentialVars

\* lines 143-166 of invocation r
ConcChainInvokeReturns(r, text) ==
  /\ requests[r].pc = "generate"
  /\ requests' =
       [requests EXCEPT ![r] =
          [ended(r, "generate_returns", parseAndRespond(text))
             EXCEPT !.text = text]]
  /\ UNCHANGED sequentialVars

NextConc ==
  \/ \E r \in ConcRequestIds, b \in ConcBodies : ConcPOST(r, b)
  \/ \E r \in ConcRequestIds : ConcEmbedQueryThrows(r)
  \/ \E r \in ConcRequestIds, v \in QueryVectors : ConcEmbedQueryReturns(r, v)
  \/ \E r \in ConcRequestIds : ConcRpcReturns(r)
  \/ \E r \in ConcRequestIds, message \in GeneratorErrors :
       ConcChainInvokeThrows(r, message)
  \/ \E r \in ConcRequestIds, text \in ConcTexts :
       ConcChainInvokeReturns(r, text)

ConcSpec == InitConc /\ [][NextConc]_vars

(***************************************************************************)
(* Vocabulary of the properties                                             *)
(***************************************************************************)
\* part occurs in text as a contiguous run
Contains(text, part) == \E i \in 1..(Len(text) + 1) : HasAt(text, part, i)

IsErrorBody(b) == IsStringField(b, <<"error">>)

IsDecisionResult(b) ==
  /\ b.t = "object"
  /\ IsStringField(b, <<"recommendation">>)
  /\ IsStringField(b, <<"short_reason">>)
  /\ IsStringField(b, <<"detailed_reasoning">>)

\* the similarity search of the current request answered with no candidate
SearchCameBackEmpty ==
  /\ pc = "done"
  /\ calls.rpc = 1
  /\ ~error
  /\ (documents.isNull \/ documents.rows = <<>>)

\* the Generator of the current request answered with a text
GeneratorAnswered == pc = "done" /\ generated.kind # "none"

\* the Generator answered and neither the text nor its repair parses
RepairExhausted ==
  /\ GeneratorAnswered
  /\ ~JSONparse(generated.text).ok
  /\ ~JSONparse(cleanJsonOutput(generated.text)).ok

\* the embedding provider of the current request threw
EmbeddingFailed == pc = "done" /\ calls.embed = 1 /\ calls.rpc = 0

\* the Generator of the current request threw
GenerationFailed ==
  pc = "done" /\ calls.generate = 1 /\ generated.kind = "none"

\* the store of the current request reported an error
RetrievalFailed == pc = "done" /\ calls.rpc = 1 /\ error

IsBlank(text) == \A i \in 1..Len(text) : text[i] \in JsonWs \cup ControlChars

\* at least two entries are left after the blank ones are removed, and
\* those are pairwise distinct
AtLeastTwoDistinct(list) ==
  LET kept == SelectSeq(list, LAMBDA o : ~IsBlank(o)) IN
  /\ Len(kept) >= 2
  /\ \A i, j \in 1..Len(kept) : i # j => kept[i] # kept[j]

(***************************************************************************)
(* Properties                                                               *)
(***************************************************************************)
\* C1: when the similarity search returns no candidate (null or an empty
\* list), the prompt is not built, the Generator is not invoked, and the
\* response is HTTP 200 with exactly the fixed fallback payload.
NoGroundingShortCircuit ==
  SearchCameBackEmpty =>
    /\ ~prompt.built
    /\ calls.prompt = 0
    /\ calls.generate = 0
    /\ response.status = 200
    /\ response.body =
         DecisionResult(
           <<"Unable to analyze.">>,
           <<"No relevant frameworks found in your book library.">>,
           <<"The system searched your uploaded books but could not find a mental model that applies to this specific problem. Please try rephrasing your problem or adding more books to the database.">>)

\* C1 witness: a search over a store answered with an empty list
NoGroundingReached ==
  /\ SearchCameBackEmpty
  /\ ~documents.isNull
  /\ Len(documents_table) > 0
  /\ response.status = 200

\* C2: a Generator text on which every parse attempt fails still ends in a
\* 2xx response with a degraded result, never an error status or body.
MalformedOutputNeverHttpError ==
  RepairExhausted =>
    /\ response.status \in 200..299
    /\ ~HasField(response.body, <<"error">>)
    /\ IsDecisionResult(response.body)

\* C3: when no parse attempt succeeds the result has the fixed sentinel
\* recommendation, a short reason naming the formatting failure, and a
\* detailed reasoning that contains the raw Generator text unmodified.
RepairDegradation ==
  RepairExhausted =>
    /\ IsDecisionResult(response.body)
    /\ Field(response.body, <<"recommendation">>).v = <<"Analysis failed.">>
    /\ Field(response.body, <<"short_reason">>).v =
         <<"Could not parse AI response due to malformed JSON.">>
    /\ Contains(Field(response.body, <<"detailed_reasoning">>).v,
                generated.text)

\* C3 witness: repair is exhausted on a text that the repair changed
RepairDegradationReached ==
  /\ RepairExhausted
  /\ generated.text # <<>>
  /\ cleanJsonOutput(generated.text) # generated.text

\* C4: a JSON object in a ```json fence with a raw line break inside a
\* string value is repaired into the intended object, line break included.
FencedRawNewlineRepaired ==
  (GeneratorAnswered /\ generated.kind = "object"
     /\ generated.wrap = "fence_json" /\ generated.nl = "raw") =>
    /\ response.status = 200
    /\ response.body = generated.intent

\* C5: with at least two distinct non-empty options submitted and a
\* candidate retrieved, the returned recommendation is one of the submitted
\* options, whatever the Generator answered.
RecommendationIsAnOption ==
  (GeneratorAnswered /\ AtLeastTwoDistinct(body.options)) =>
    /\ IsStringField(response.body, <<"recommendation">>)
    /\ \E i \in 1..Len(body.options) :
         Field(response.body, <<"recommendation">>).v = body.options[i]

\* C6 as stated: an error of the embedding backend and an error of the
\* generation backend both end the request with HTTP 503 and an error body.
ProviderUnavailableIs503 ==
  (EmbeddingFailed \/ GenerationFailed) =>
    /\ response.status = 503
    /\ IsErrorBody(response.body)

\* C6: an error of the embedding backend ends the request with HTTP 503, an
\* error of the generation backend with HTTP 500, both with an error body.
ProviderFailureMapping ==
  /\ EmbeddingFailed =>
       /\ response.status = 503
       /\ IsErrorBody(response.body)
  /\ GenerationFailed =>
       /\ response.status = 500
       /\ IsErrorBody(response.body)

\* C6 witness: the Generator threw after a successful retrieval
GenerationFailureReached ==
  /\ GenerationFailed
  /\ documents.rows # <<>>
  /\ response.status >= 500

\* C7: when the store query reports an error the request ends with HTTP 500
\* and an error body, and neither the prompt nor the Generator is used.
RetrievalFailureIs500 ==
  RetrievalFailed =>
    /\ response.status = 500
    /\ IsErrorBody(response.body)
    /\ ~prompt.built
    /\ calls.prompt = 0
    /\ calls.generate = 0

\* C7 witness: the store reported an error
RetrievalFailureReached == RetrievalFailed /\ response # NoResponse

\* C8: with any of the four credentials absent a request ends at once with
\* HTTP 500 and an error body, the body unread and no provider called.
ConfigurationFailsFast ==
  (nReq > 0 /\ \E c \in Credentials : ~env[c]) =>
    /\ pc = "done"
    /\ response.status = 500
    /\ IsErrorBody(response.body)
    /\ ~bodyRead
    /\ calls = [embed |-> 0, rpc |-> 0, prompt |-> 0, generate |-> 0]

\* C8 witness: a request was made with only the embedding token absent
ConfigurationErrorReached ==
  /\ nReq > 0
  /\ ~env["HF_TOKEN"]
  /\ \A c \in Credentials \ {"HF_TOKEN"} : env[c]
  /\ body.valid

\* C9: whenever the embedding provider or the Generator has been invoked,
\* the sanitized options hold at least two non-blank, distinct entries.
OnlyValidOptionsProcessed ==
  (calls.embed > 0 \/ calls.generate > 0) => AtLeastTwoDistinct(options)

\* C10: every HTTP 200 response is an object with the string fields
\* recommendation, short_reason and detailed_reasoning.
SuccessResponseShape ==
  (pc = "done" /\ response.status = 200) => IsDecisionResult(response.body)

usable(rawData, key) ==
  /\ HasField(rawData, <<key>>)
  /\ Field(rawData, <<key>>).t = "string"
  /\ Field(rawData, <<key>>).v # <<>>

\* the text of the adapted result's field
adapted(out, key) == Field(out, <<key>>).v

\* C12: each field of the adapted result is the first usable name of its
\* precedence list (recommendation, selected_option; short_reason, rationale,
\* reasoning; detailed_reasoning, rationale), and a payload that uses only
\* selected_option and rationale has both its values in the result.
AliasPrecedence ==
  (probe.fn = "adaptedResult" /\ probe.done) =>
    LET p == probe.rawData
        out == probe.out
        text(key) == Field(p, <<key>>).v
        U(key) == usable(p, key)
    IN /\ U("recommendation") =>
            adapted(out, "recommendation") = text("recommendation")
       /\ (~U("recommendation") /\ U("selected_option")) =>
            adapted(out, "recommendation") = text("selected_option")
       /\ U("short_reason") =>
            adapted(out, "short_reason") = text("short_reason")
       /\ (~U("short_reason") /\ U("rationale")) =>
            adapted(out, "short_reason") = text("rationale")
       /\ (~U("short_reason") /\ ~U("rationale") /\ U("reasoning")) =>
            adapted(out, "short_reason") = text("reasoning")
       /\ U("detailed_reasoning") =>
            adapted(out, "detailed_reasoning") = text("detailed_reasoning")
       /\ (~U("detailed_reasoning") /\ U("rationale")) =>
            adapted(out, "detailed_reasoning") = text("rationale")
       /\ (/\ U("selected_option") /\ U("rationale")
            /\ Len(p.m) = 2) =>
            /\ IsDecisionResult(out)
            /\ {text("selected_option"), text("rationale")}
                 \subseteq {adapted(out, "recommendation"),
                            adapted(out, "short_reason"),
                            adapted(out, "detailed_reasoning")}

\* C12 witness: a payload naming rationale and reasoning but no short_reason
\* was adapted
AliasPayloadAdapted ==
  /\ probe.fn = "adaptedResult"
  /\ probe.done
  /\ usable(probe.rawData, "selected_option")
  /\ usable(probe.rawData, "rationale")
  /\ usable(probe.rawData, "reasoning")
  /\ ~HasField(probe.rawData, <<"recommendation">>)
  /\ ~HasField(probe.rawData, <<"short_reason">>)
  /\ adapted(probe.out, "short_reason") = <<"value of ", "rationale">>

\* some name of the list holds a truthy value in the payload
anyTruthy(rawData, keys) ==
  \E i \in 1..Len(keys) : truthy(property(rawData, keys[i]))

\* C13: after every successful response the adapted result has the three
\* canonical fields present and non-null, and a field none of whose names is
\* usable in the payload holds its default.
AdapterTotality ==
  (clientDone /\ response.status \in 200..299) =>
    /\ result.t = "object"
    /\ \A key \in {"recommendation", "short_reason", "detailed_reasoning"} :
         /\ HasField(result, <<key>>)
         /\ Field(result, <<key>>).t \notin {"null", "undefined"}
    /\ ~anyTruthy(response.body, <<"recommendation", "selected_option">>)
         => Field(result, <<"recommendation">>) = JString(<<"Decision Made">>)
    /\ ~anyTruthy(response.body, <<"short_reason", "rationale", "reasoning">>)
         => Field(result, <<"short_reason">>)
              = JString(<<"View details for reasoning.">>)
    /\ ~anyTruthy(response.body, <<"detailed_reasoning", "rationale">>)
         => Field(result, <<"detailed_reasoning">>)
              = JString(<<"No detailed context provided.">>)

\* C14: within a request a stage has started only if the stage before it
\* has completed: the search after the embedding is known, the context and
\* the prompt after the search returned candidates, the Generator after the
\* prompt, the repair after the Generator answered, the adapter after the
\* response; and the request is at one point of the pipeline at a time.
StagesInOrder ==
  /\ pc \in {"idle", "embed", "rpc", "generate", "done"}
  /\ pc = "embed" => (calls = [NoCalls EXCEPT !.embed = 1] /\ vector = 0)
  /\ calls.rpc > 0 => (calls.embed = 1 /\ vector \in QueryVectors)
  /\ pc = "rpc" => (calls.prompt = 0 /\ calls.generate = 0 /\ ~prompt.built
                      /\ documents = NoDocuments)
  /\ prompt.built =>
       /\ calls.rpc = 1
       /\ ~error
       /\ ~documents.isNull
       /\ Len(documents.rows) >= 1
       /\ contextText = join(contents(documents.rows), <<"\n", "---", "\n">>)
       /\ prompt.context = contextText
  /\ calls.generate > 0 => (prompt.built /\ calls.prompt = 1)
  /\ pc = "generate" => (generated = NoCase /\ stages = <<>>)
  /\ generated.kind # "none" => (calls.generate = 1 /\ pc = "done")
  /\ stages # <<>> => (generated.kind # "none" /\ stages[1] = "parse")
  /\ pc # "done" => (~clientDone /\ result = JNull /\ response = NoResponse)
  /\ clientDone => (pc = "done" /\ response # NoResponse)

\* C14 witness: a request went through every stage, repair and adapter
\* included
EveryStageRan ==
  /\ clientDone
  /\ calls = [embed |-> 1, rpc |-> 1, prompt |-> 1, generate |-> 1]
  /\ Len(stages) > 1
  /\ response.status = 200
  /\ IsDecisionResult(result)

\* C15: in a request the embedding provider, the similarity search and the
\* Generator are each invoked at most once, and exactly once the Generator
\* when the search returned at least one candidate.
NoInternalRetry ==
  /\ calls.embed <= 1
  /\ calls.rpc <= 1
  /\ calls.generate <= 1
  /\ (/\ \A c \in Credentials : env[c]
      /\ vector \in QueryVectors
      /\ pc \in {"generate", "done"}
      /\ ~error
      /\ ~documents.isNull
      /\ Len(documents.rows) >= 1) => calls.generate = 1

\* C15 witness: a request with a candidate ended after one call of each
GeneratorInvokedOnce ==
  /\ pc = "done"
  /\ Len(documents.rows) >= 1
  /\ generated.kind = "object"
  /\ calls = [embed |-> 1, rpc |-> 1, prompt |-> 1, generate |-> 1]

\* the two-character escapes of the control characters the repair names
EscapeLetter(c) ==
  CASE c = "\n" -> "n" [] c = "\r" -> "r" [] c = "\t" -> "t"

\* text from index i on with every raw newline, carriage return and tab that
\* lies inside a string literal and follows no backslash replaced by its
\* escape
RECURSIVE escapeInStrings(_, _, _, _)
escapeInStrings(text, i, inString, afterBackslash) ==
  IF i > Len(text) THEN <<>>
  ELSE IF inString /\ ~afterBackslash /\ text[i] \in {"\n", "\r", "\t"}
  THEN <<"\\", EscapeLetter(text[i])>>
         \o escapeInStrings(text, i + 1, inString, FALSE)
  ELSE IF text[i] = "\"" /\ ~afterBackslash
  THEN <<text[i]>> \o escapeInStrings(text, i + 1, ~inString, FALSE)
  ELSE IF text[i] = "\\" /\ inString /\ ~afterBackslash
  THEN <<text[i]>> \o escapeInStrings(text, i + 1, inString, TRUE)
  ELSE <<text[i]>> \o escapeInStrings(text, i + 1, inString, FALSE)

\* the candidates of the staged repair: the text, the text without its
\* fence, the braces of that, and that with its controls escaped
stagedCandidates(text) ==
  LET fence == IF jsonMatch(text).found THEN jsonMatch(text).group ELSE text
      brace == cleanJsonOutput_part003(fence)
  IN <<text, fence, brace, escapeInStrings(brace, 1, FALSE, FALSE)>>

\* the stages the staged repair runs on text
stagedStages(text) ==
  LET c == stagedCandidates(text)
  IN IF JSONparse(c[1]).ok THEN <<"parse">>
     ELSE IF JSONparse(c[2]).ok THEN <<"parse", "fence", "parse">>
     ELSE IF JSONparse(c[3]).ok
     THEN <<"parse", "fence", "parse", "brace", "parse">>
     ELSE <<"parse", "fence", "parse", "brace", "parse", "escape", "parse">>

\* C16: the repair parses the unmodified text first and on success runs no
\* repair; otherwise it strips the fence, extracts the braces and escapes
\* the controls in that order, parsing after each and going on only when
\* that parse failed, and answers with the first parse that succeeds.
RepairStageOrder ==
  GeneratorAnswered =>
    LET c == stagedCandidates(generated.text)
    IN /\ stages = stagedStages(generated.text)
       /\ \A n \in 1..4 :
            (/\ JSONparse(c[n]).ok
             /\ \A k \in 1..(n - 1) : ~JSONparse(c[k]).ok)
            => /\ response.status = 200
               /\ response.body = JSONparse(c[n]).val

\* the positions, counted from 1, of the first c and the last c of text
firstOf(text, c) == Min({i \in 1..Len(text) : text[i] = c})
lastOf(text, c) ==
  CHOOSE i \in 1..Len(text) :
    text[i] = c /\ \A j \in (i + 1)..Len(text) : text[j] # c

\* text holds both braces
hasBraces(text) ==
  /\ \E i \in 1..Len(text) : text[i] = "{"
  /\ \E i \in 1..Len(text) : text[i] = "}"

\* C17 as stated: a text with both braces gives the run from its first
\* opening brace to its last closing brace, which starts with the one and
\* ends with the other, also when the last closing brace comes first; a text
\* lacking either brace comes back unchanged.
BraceExtractionInclusive ==
  (probe.fn = "cleanJsonOutput_part003" /\ probe.done) =>
    IF hasBraces(probe.text)
    THEN /\ Len(probe.out) >= 2
         /\ probe.out[1] = "{"
         /\ probe.out[Len(probe.out)] = "}"
         /\ probe.out = SubSeq(probe.text, firstOf(probe.text, "{"),
                               lastOf(probe.text, "}"))
    ELSE probe.out = probe.text

\* C17: a text whose first opening brace comes before its last closing
\* brace gives the run from the one to the other inclusive; a text whose
\* last closing brace comes before its first opening brace gives the
\* characters strictly between the two, neither brace included; a text
\* lacking either brace comes back unchanged.
BraceExtractionOrdered ==
  (probe.fn = "cleanJsonOutput_part003" /\ probe.done) =>
    IF ~hasBraces(probe.text) THEN probe.out = probe.text
    ELSE IF firstOf(probe.text, "{") < lastOf(probe.text, "}")
    THEN /\ probe.out = SubSeq(probe.text, firstOf(probe.text, "{"),
                               lastOf(probe.text, "}"))
         /\ probe.out[1] = "{"
         /\ probe.out[Len(probe.out)] = "}"
    ELSE /\ probe.out = SubSeq(probe.text, lastOf(probe.text, "}") + 1,
                               firstOf(probe.text, "{") - 1)
         /\ \A i \in 1..Len(probe.out) : probe.out[i] \notin {"{", "}"}

\* C17 witness: the extraction ran on a text whose last closing brace comes
\* before its first opening brace, with a character between them
BracesReversedExtracted ==
  /\ probe.fn = "cleanJsonOutput_part003"
  /\ probe.done
  /\ hasBraces(probe.text)
  /\ lastOf(probe.text, "}") < firstOf(probe.text, "{")
  /\ probe.out = <<"a">>

\* C18: on an object written with a raw line break inside a string value
\* the repair gives the text with that line break replaced by its escape and
\* every other character unchanged, and the result parses to the object
\* meant, line break included.
ControlEscaping ==
  (GeneratorAnswered /\ generated.kind = "object"
     /\ generated.wrap = "plain" /\ generated.nl = "raw") =>
    /\ cleanJsonOutput(generated.text)
         = escapeInStrings(generated.text, 1, FALSE, FALSE)
    /\ JSONparse(cleanJsonOutput(generated.text)).ok
    /\ JSONparse(cleanJsonOutput(generated.text)).val = generated.intent

\* text without its control characters
withoutControls(text) == SelectSeq(text, LAMBDA c : c \notin ControlChars)

EmbeddingInputNonEmpty == calls.embed > 0 => embedInput # <<>>

\* where the content of the i-th candidate starts in the grounding block:
\* after the contents before it and one three-character separator each
RECURSIVE contextOffset(_, _)
contextOffset(rows, i) ==
  IF i = 1 THEN 1
  ELSE contextOffset(rows, i - 1) + Len(rows[i - 1].content) + 3

\* C24: the grounding block holds the content of every returned candidate
\* once per occurrence, in retrieval order, with the separator line between
\* consecutive contents and nothing before the first or after the last.
ContextAssembly ==
  prompt.built =>
    LET rows == documents.rows
        n == Len(rows)
        from(i) == contextOffset(rows, i)
        to(i) == contextOffset(rows, i) + Len(rows[i].content) - 1
    IN /\ n >= 1
       /\ prompt.context = contextText
       /\ Len(contextText) = to(n)
       /\ \A i \in 1..n : SubSeq(contextText, from(i), to(i)) = rows[i].content
       /\ \A i \in 1..(n - 1) :
            SubSeq(contextText, to(i) + 1, to(i) + 3) = <<"\n", "---", "\n">>

\* C24 witness: a prompt was built from candidates two of which have the
\* same content
DuplicateContentAssembled ==
  /\ prompt.built
  /\ Len(documents.rows) >= 3
  /\ \E i, j \in 1..Len(documents.rows) :
       i < j /\ documents.rows[i].content = documents.rows[j].content

\* C25: when repair is exhausted and the page has handled the response, the
\* displayed result is the degraded result, its detailed reasoning holding
\* the raw Generator text, and no alert was shown.
DegradedResultDisplayed ==
  (RepairExhausted /\ clientDone /\ ~exampleLoaded
     /\ alertMessage # <<"Error: ", "Failed to fetch">>) =>
    /\ alertMessage = <<>>
    /\ IsDecisionResult(result)
    /\ Contains(Field(result, <<"detailed_reasoning">>).v, generated.text)

\* C27: once Load Example was clicked the displayed result is null until a
\* request submitted after the click completes.
ExampleClearsResult == exampleLoaded => result = JNull

\* C28: loading is true from the submit until its response was handled and
\* false afterwards whatever the outcome; the result is null during the
\* wait, is non-null only after a 2xx response was handled, and is null
\* after every failure.
SubmitLifecycle ==
  /\ pc \in {"embed", "rpc", "generate"} => (loading /\ result = JNull)
  /\ (pc = "done" /\ ~clientDone) => (loading /\ result = JNull)
  /\ (pc = "idle" \/ clientDone) => ~loading
  /\ result # JNull =>
       (clientDone /\ response.status \in 200..299 /\ alertMessage = <<>>)
  /\ alertMessage # <<>> => (clientDone /\ result = JNull)
  /\ (clientDone /\ response.status \notin 200..299) =>
       (result = JNull /\ alertMessage # <<>>)

\* C28 witness: a second submit ended with a non-2xx response handled after
\* a first one had shown a result
SubmitFailedAfterSuccess ==
  /\ nReq = 2
  /\ clientDone
  /\ ~loading
  /\ response.status = 503
  /\ result = JNull
  /\ alertMessage # <<>>

\* C21: two executions of the search on the same table with the same query,
\* threshold and match_count return the same rows in the same order.
RetrievalDeterminism ==
  (probe.fn = "match_documents" /\ probe.done /\ probe.doneAgain) =>
    probe.again = probe.out

\* C26: every vector an ingestion script sends to the corpus and every query
\* vector of the decide route has the length of the schema and of the
\* parameter of match_documents.
DimensionAgreement ==
  /\ EmbeddingDimension(RouteEmbeddingModel) = SchemaDimension
  /\ (probe.fn = "ingest" /\ probe.done) =>
       (probe.sent = SchemaDimension /\ probe.stored = probe.chunks)

\* C22: a request that waits for the embedding provider, the similarity
\* search or the Generator eventually ends with a response, whether or not
\* the provider answers.
EveryRequestEnds == (pc \in {"embed", "rpc", "generate"}) ~> (pc = "done")

\* the response of a request that runs alone on the table it found, given
\* what the providers gave it
aloneResponse(q) ==
  CASE q.provider = "embed_throws" ->
         Response(503, ErrorBody(
           <<"Hugging Face is busy. Please try again in 5 seconds.">>))
    [] q.provider = "rpc_error" -> caught(<<"Database search failed.">>)
    [] q.provider = "rpc_data" -> Response(200, NoGroundingPayload)
    [] q.provider = "generate_throws" -> caught(q.message)
    [] q.provider = "generate_returns" -> parseAndRespond(q.text)

\* C23: under every interleaving of concurrent requests the documents table
\* stays as each request found it, each request works on its own body and
\* its own vector, its candidates are those of a search of that table with
\* that vector, and its response is the one it gives when running alone.
RequestIsolation ==
  \A r \in ConcRequestIds :
    LET q == requests[r]
    IN /\ q.vector = q.embedded
       /\ q.pc # "idle" =>
            /\ q.store = documents_table
            /\ q.problem = withoutControls(q.body.problem)
            /\ Len(q.options) = Len(q.body.options)
       /\ (q.provider \in {"rpc_data", "generate_throws", "generate_returns"}
             /\ ~q.documents.isNull) =>
            q.documents.rows \in match_documents(q.store, q.embedded,
                                                 MatchThreshold, MatchCount)
       /\ q.pc = "generate" =>
            q.contextText = join(contents(q.documents.rows),
                                 <<"\n", "---", "\n">>)
       /\ q.pc = "done" => q.response = aloneResponse(q)

\* C23 witness: two requests that overlapped in time ended with different
\* vectors and different responses
OverlappingRequestsEnded ==
  /\ requests # NoRequests
  /\ requests[1].pc = "done"
  /\ requests[2].pc = "done"
  /\ requests[1].overlapped
  /\ requests[2].overlapped
  /\ requests[1].embedded # requests[2].embedded
  /\ requests[1].provider = "generate_returns"
  /\ requests[2].provider = "rpc_data"

====
